---------------------------- MODULE Spec2Model ----------------------------
(***************************************************************************)
(* A model of query_api.py: the two GitHub code-search query routines      *)
(* (query_sklearn_datasets, query_r_datasets), the plotting step and the   *)
(* script's entry point.                                                   *)
(*                                                                         *)
(* The search API is the environment.  Every requests.get either raises a  *)
(* transport exception or returns a response with a status code and a JSON *)
(* object; the variable api holds the set of outcomes the API may produce  *)
(* in the run.  JSON bodies are objects (sets of <<key, value>> pairs); a  *)
(* body that is not a JSON object is not modelled.  Dataset names of the   *)
(* R list are sequences of one-character strings, so that the filter on    *)
(* spaces and periods is computed as the code computes it.                 *)
(***************************************************************************)
EXTENDS Integers, Sequences, FiniteSets, TLC

VARIABLES
    entry,          \* how the module is run: "script", or a direct call "A" / "B"
    token,          \* os.getenv("GITHUB_TOKEN") / the token argument
    api,            \* the outcomes the search API may produce in this run
    datasets_list,  \* content of r_datasets_list.json
    pc,             \* position in the program
    i,              \* position of the for loop in its list (1-based)
    dataset_names,  \* local list dataset_names of the running routine
    counts,         \* local list counts of the running routine
    attempt,        \* local attempt of query_r_datasets
    success,        \* local success of query_r_datasets
    response,       \* local response of the running routine
    sklearn_df,     \* value returned by query_sklearn_datasets
    r_df,           \* value returned by query_r_datasets
    files,          \* for each output file, the contents written to it, in order
    log,            \* history: what happened for the current list entry
    mark,           \* history: Len(dataset_names) when the current entry started
    row_src,        \* history: for each row, the list position that produced it
    failed_queries, \* history: list entries whose query ended without a success answer
    network_used    \* history: some HTTP request was issued in this run

vars == <<entry, token, api, datasets_list, pc, i, dataset_names, counts,
          attempt, success, response, sklearn_df, r_df, files, log, mark,
          row_src, failed_queries, network_used>>

(***************************************************************************)
(* Bounds of the model.                                                    *)
(***************************************************************************)
MaxLen == 2

(***************************************************************************)
(* Program constants.                                                      *)
(***************************************************************************)
\* faulty variants of the retry cap: one attempt too few, one too many
max_attempts_short == 10 - 1

max_attempts_long == 10 + 1

\* max_attempts = 10
max_attempts == 10

\* n_top: int = 10
n_top == 10

\* the status code retried: response.status_code == 403
RATE_LIMIT == 403

\* faulty variant: the attempt counter is not incremented
AttemptInc_forgotten(a) == a

\* attempt += 1
AttemptInc(a) == a + 1

\* faulty variant: the except clause does not break, the loop goes on
AfterException_pass == "r_while"

\* where the except clause's break leaves the routine: after the while loop
AfterException == "r_after"

\* datasets = [...]

sklearn_datasets ==
    << "load_iris", "load_diabetes", "load_digits",
       "load_linnerud", "load_wine", "load_breast_cancer" >>

(***************************************************************************)
(* Inputs: names an R list may hold, API answers.                          *)
(***************************************************************************)
Iris == << "i", "r", "i", "s" >>

Cars == << "c", "a", "r", "s" >>

StateX77 == << "s", ".", "x" >>

AirMiles == << "a", " ", "m" >>

RNames == { Iris, Cars, StateX77, AirMiles }

RECURSIVE ListsUpTo(_, _)
ListsUpTo(S, n) ==
    IF n = 0 THEN { << >> }
    ELSE LET shorter == ListsUpTo(S, n - 1)
         IN  shorter \cup { Append(l, x) : l \in { s \in shorter : Len(s) = n - 1 }, x \in S }

StatusCodes == { 200, 403, 404, 500 }

Bodies == { {}, { << "total_count", 7 >> }, { << "total_count", 120 >> },
            { << "message", 1 >> } }

NoResponse == [ exc |-> FALSE, status |-> 0, body |-> {} ]

TransportError == [ exc |-> TRUE, status |-> 0, body |-> {} ]

Outcomes ==
    [ exc : { FALSE }, status : StatusCodes, body : Bodies ] \cup { TransportError }

NoFile == << >>

OutputFiles == { "sklearn_datasets_counts.csv", "r_datasets_counts.csv", "plot.png" }

(***************************************************************************)
(* Pure helpers.                                                           *)
(***************************************************************************)
\* faulty variants: the status is not looked at; the test is inverted
ResponseOk_unchecked(status) == TRUE

ResponseOk_inverted(status) == status >= 400 /\ status < 600

\* requests.Response.ok: raise_for_status() raises for 400 <= status < 600
ResponseOk(status) == ~(status >= 400 /\ status < 600)

\* faulty variant: an absent key does not yield the default
DataGet_nodefault(data, key, default) ==
    IF \E p \in data : p[1] = key
    THEN (CHOOSE p \in data : p[1] = key)[2]
    ELSE 1

\* dict.get(key, default)
DataGet(data, key, default) ==
    IF \E p \in data : p[1] = key
    THEN (CHOOSE p \in data : p[1] = key)[2]
    ELSE default

\* faulty variant: only None counts as missing
TokenPresent_not_none(t) == t # "None"

\* truthiness of os.getenv("GITHUB_TOKEN"): None and "" are false
TokenPresent(t) == t \notin { "None", "" }

\* faulty variant: the element is put at the front
ListAppend_front(list, x) == << x >> \o list

\* list.append(x)
ListAppend(list, x) == Append(list, x)

\* what the API answered, as the history records it
AnswerLabel(o) ==
    IF o.exc THEN "transport error"
    ELSE CASE o.status = 200 -> "200"
           [] o.status = 403 -> "403"
           [] o.status = 404 -> "404"
           [] o.status = 500 -> "500"

\* ch in dataset
Contains(dataset, ch) == \E k \in DOMAIN dataset : dataset[k] = ch

\* faulty variant: only the space is looked for
Unsupported_spaceonly(dataset) == Contains(dataset, " ")

\* " " in dataset or "." in dataset
Unsupported(dataset) == Contains(dataset, " ") \/ Contains(dataset, ".")

\* pd.DataFrame({"dataset": dataset_names, "total_count": counts})
DataFrame(names, cnts) == [ dataset |-> names, total_count |-> cnts ]

EmptyFrame == DataFrame(<< >>, << >>)

\* df.to_csv(path, index=False): a header row and one row per entry
ToCsv(df) ==
    [ header |-> << "dataset", "total_count" >>,
      rows   |-> [ k \in 1..Len(df.dataset) |-> << df.dataset[k], df.total_count[k] >> ] ]

Write(fs, path, content) == [ fs EXCEPT ![path] = Append(@, content) ]

\* position of the first largest count among the positions in S
ArgMax(cnts, S) ==
    CHOOSE k \in S : \A j \in S : cnts[k] > cnts[j] \/ (cnts[k] = cnts[j] /\ k <= j)

RECURSIVE LargestPositions(_, _, _)
LargestPositions(cnts, S, n) ==
    IF n = 0 \/ S = {} THEN << >>
    ELSE LET k == ArgMax(cnts, S)
         IN  << k >> \o LargestPositions(cnts, S \ { k }, n - 1)

\* df.nlargest(n, 'total_count')
NLargest(df, n) ==
    LET pos == LargestPositions(df.total_count, DOMAIN df.total_count, n)
    IN  DataFrame([ k \in 1..Len(pos) |-> df.dataset[pos[k]] ],
                  [ k \in 1..Len(pos) |-> df.total_count[pos[k]] ])

(***************************************************************************)
(* Initial states.                                                         *)
(***************************************************************************)
Locals ==
    /\ i = 1
    /\ dataset_names = << >>
    /\ counts = << >>
    /\ attempt = 0
    /\ success = FALSE
    /\ response = NoResponse
    /\ sklearn_df = EmptyFrame
    /\ r_df = EmptyFrame
    /\ files = [ f \in OutputFiles |-> NoFile ]
    /\ log = << >>
    /\ mark = 0
    /\ row_src = << >>
    /\ failed_queries = 0
    /\ network_used = FALSE

\* python query_api.py: the API answers every request of the run the same way
InitScript ==
    /\ entry = "script"
    /\ token \in { "None", "", "ghp_token" }
    /\ api \in { { o } : o \in Outcomes }
    /\ datasets_list \in ListsUpTo(RNames, MaxLen)
    /\ pc = "main"
    /\ Locals

\* query_sklearn_datasets(token) called on its own, any API answers
InitCallA ==
    /\ entry = "A"
    /\ token = "ghp_token"
    /\ api = Outcomes
    /\ datasets_list = << >>
    /\ pc = "sk_for"
    /\ Locals

\* query_r_datasets(token) called on its own, any API answers
InitCallB ==
    /\ entry = "B"
    /\ token = "ghp_token"
    /\ api = Outcomes
    /\ datasets_list \in ListsUpTo(RNames, MaxLen)
    /\ pc = "r_open"
    /\ Locals

Init == InitScript \/ InitCallA \/ InitCallB

(***************************************************************************)
(* The entry point.                                                        *)
(***************************************************************************)
\* if token: ... else: print("Error: ...")
Main ==
    /\ pc = "main"
    /\ IF TokenPresent(token)
       THEN /\ pc' = "sk_for"
            /\ log' = << "print:token retrieved" >>
       ELSE /\ pc' = "no_token"
            /\ log' = << "print:token not set" >>
    /\ UNCHANGED << entry, token, api, datasets_list, i, dataset_names, counts,
                    attempt, success, response, sklearn_df, r_df, files, mark,
                    row_src, failed_queries, network_used >>

(***************************************************************************)
(* query_sklearn_datasets.                                                 *)
(***************************************************************************)
\* one pass of the for loop: one request and its handling
SkRequest ==
    /\ pc = "sk_for"
    /\ i <= Len(sklearn_datasets)
    /\ \E o \in api :
         /\ network_used' = TRUE
         /\ mark' = Len(dataset_names)
         /\ IF o.exc
            THEN \* requests.get raises; nothing catches it
                 /\ pc' = "crashed"
                 /\ log' = << "GET", AnswerLabel(o) >>
                 /\ failed_queries' = failed_queries + 1
                 /\ UNCHANGED << i, dataset_names, counts, response, row_src >>
            ELSE /\ response' = o
                 /\ pc' = "sk_for"
                 /\ i' = i + 1
                 /\ IF ~ResponseOk(o.status)
                    THEN /\ log' = << "GET", AnswerLabel(o), "print:failed" >>
                         /\ failed_queries' = failed_queries + 1
                         /\ UNCHANGED << dataset_names, counts, row_src >>
                    ELSE /\ log' = << "GET", AnswerLabel(o), "print:count" >>
                         /\ dataset_names' = ListAppend(dataset_names, sklearn_datasets[i])
                         /\ counts' = ListAppend(counts, DataGet(o.body, "total_count", 0))
                         /\ row_src' = Append(row_src, i)
                         /\ failed_queries' =
                                failed_queries + (IF AnswerLabel(o) = "200" THEN 0 ELSE 1)
    /\ UNCHANGED << entry, token, api, datasets_list, attempt, success,
                    sklearn_df, r_df, files >>

\* after the loop: build the table, write it, return it
SkWrite ==
    /\ pc = "sk_for"
    /\ i > Len(sklearn_datasets)
    /\ sklearn_df' = DataFrame(dataset_names, counts)
    /\ files' = Write(files, "sklearn_datasets_counts.csv",
                      ToCsv(DataFrame(dataset_names, counts)))
    /\ pc' = IF entry = "script" THEN "r_open" ELSE "done"
    /\ UNCHANGED << entry, token, api, datasets_list, i, dataset_names, counts,
                    attempt, success, response, r_df, log, mark, row_src,
                    failed_queries, network_used >>

(***************************************************************************)
(* query_r_datasets.                                                       *)
(***************************************************************************)
\* the routine's own frame: the list is read, the result lists start empty
ROpen ==
    /\ pc = "r_open"
    /\ i' = 1
    /\ dataset_names' = << >>
    /\ counts' = << >>
    /\ response' = NoResponse
    /\ log' = << >>
    /\ mark' = 0
    /\ row_src' = << >>
    /\ failed_queries' = 0
    /\ pc' = "r_for"
    /\ UNCHANGED << entry, token, api, datasets_list, attempt, success,
                    sklearn_df, r_df, files, network_used >>

\* for dataset in datasets_list: the filter, then the retry loop's set-up
RFor ==
    /\ pc = "r_for"
    /\ i <= Len(datasets_list)
    /\ mark' = Len(dataset_names)
    /\ log' = << >>
    /\ IF Unsupported(datasets_list[i])
       THEN /\ i' = i + 1
            /\ pc' = "r_for"
            /\ UNCHANGED << attempt, success >>
       ELSE /\ attempt' = 0
            /\ success' = FALSE
            /\ pc' = "r_while"
            /\ UNCHANGED i
    /\ UNCHANGED << entry, token, api, datasets_list, dataset_names, counts,
                    response, sklearn_df, r_df, files, row_src, failed_queries,
                    network_used >>

\* one pass of the while loop: one request and its handling
RAttempt ==
    /\ pc = "r_while"
    /\ attempt < max_attempts /\ ~success
    /\ \E o \in api :
         /\ network_used' = TRUE
         /\ IF o.exc
            THEN \* requests.get raises: except ... break
                 /\ log' = log \o << "GET", AnswerLabel(o), "print:error" >>
                 /\ pc' = AfterException
                 /\ UNCHANGED << response, attempt, success, dataset_names,
                                 counts, row_src >>
            ELSE /\ response' = o
                 /\ IF ResponseOk(o.status)
                    THEN /\ log' = log \o << "GET", AnswerLabel(o), "print:count" >>
                         /\ success' = TRUE
                         /\ dataset_names' = ListAppend(dataset_names, datasets_list[i])
                         /\ counts' = ListAppend(counts, DataGet(o.body, "total_count", 0))
                         /\ row_src' = Append(row_src, i)
                         /\ pc' = "r_while"
                         /\ UNCHANGED attempt
                    ELSE IF o.status = RATE_LIMIT
                    THEN /\ attempt' = AttemptInc(attempt)
                         /\ log' = log \o << "GET", AnswerLabel(o), "print:rate limit",
                                             "sleep" >>
                         /\ pc' = "r_while"
                         /\ UNCHANGED << success, dataset_names, counts, row_src >>
                    ELSE \* raise_for_status() raises HTTPError: except ... break
                         /\ log' = log \o << "GET", AnswerLabel(o), "print:error" >>
                         /\ pc' = AfterException
                         /\ UNCHANGED << attempt, success, dataset_names, counts,
                                         row_src >>
    /\ UNCHANGED << entry, token, api, datasets_list, i, sklearn_df, r_df,
                    files, mark, failed_queries >>

\* the while condition is false
RWhileExit ==
    /\ pc = "r_while"
    /\ ~(attempt < max_attempts /\ ~success)
    /\ pc' = "r_after"
    /\ UNCHANGED << entry, token, api, datasets_list, i, dataset_names, counts,
                    attempt, success, response, sklearn_df, r_df, files, log,
                    mark, row_src, failed_queries, network_used >>

\* the last answer of the API in a history, "" when there is none
LastAnswer(l) ==
    LET answers == SelectSeq(l, LAMBDA e :
                       e \in { "200", "403", "404", "500", "transport error" })
    IN  IF answers = << >> THEN "" ELSE answers[Len(answers)]

\* if not success: print(...); then the next list entry
RAfter ==
    /\ pc = "r_after"
    /\ log' = IF ~success THEN Append(log, "print:gave up") ELSE log
    /\ failed_queries' = failed_queries + (IF LastAnswer(log) = "200" THEN 0 ELSE 1)
    /\ i' = i + 1
    /\ pc' = "r_for"
    /\ UNCHANGED << entry, token, api, datasets_list, dataset_names, counts,
                    attempt, success, response, sklearn_df, r_df, files, mark,
                    row_src, network_used >>

\* after the loop: build the table, write it, return it
RWrite ==
    /\ pc = "r_for"
    /\ i > Len(datasets_list)
    /\ r_df' = DataFrame(dataset_names, counts)
    /\ files' = Write(files, "r_datasets_counts.csv",
                      ToCsv(DataFrame(dataset_names, counts)))
    /\ pc' = IF entry = "script" THEN "plot" ELSE "done"
    /\ UNCHANGED << entry, token, api, datasets_list, i, dataset_names, counts,
                    attempt, success, response, sklearn_df, log, mark, row_src,
                    failed_queries, network_used >>

(***************************************************************************)
(* plot_dataset_usage and the summaries.                                   *)
(***************************************************************************)
\* nlargest, the two panels, savefig
PlotSave ==
    /\ pc = "plot"
    /\ files' = Write(files, "plot.png",
                      << NLargest(sklearn_df, n_top), NLargest(r_df, n_top) >>)
    /\ pc' = "done"
    /\ UNCHANGED << entry, token, api, datasets_list, i, dataset_names, counts,
                    attempt, success, response, sklearn_df, r_df, log, mark,
                    row_src, failed_queries, network_used >>

\* an empty table has object columns, for which nlargest raises in the
\* pandas versions that check the column's type
PlotRaise ==
    /\ pc = "plot"
    /\ Len(sklearn_df.dataset) = 0 \/ Len(r_df.dataset) = 0
    /\ pc' = "crashed"
    /\ UNCHANGED << entry, token, api, datasets_list, i, dataset_names, counts,
                    attempt, success, response, sklearn_df, r_df, files, log,
                    mark, row_src, failed_queries, network_used >>

Next ==
    \/ Main
    \/ SkRequest
    \/ SkWrite
    \/ ROpen
    \/ RFor
    \/ RAttempt
    \/ RWhileExit
    \/ RAfter
    \/ RWrite
    \/ PlotSave
    \/ PlotRaise

Spec == Init /\ [][Next]_vars

\* the sequential program always takes its next step
LiveSpec == Spec /\ WF_vars(Next)

(***************************************************************************)
(* Vocabulary of the properties.                                           *)
(***************************************************************************)
Count(l, e) == Cardinality({ k \in DOMAIN l : l[k] = e })

AnswerLabels == { "200", "403", "404", "500", "transport error" }

\* the API's answers in a history, in order
Answers(l) == SelectSeq(l, LAMBDA e : e \in AnswerLabels)

RECURSIVE Times(_, _)
Times(block, n) == IF n = 0 THEN << >> ELSE block \o Times(block, n - 1)

RECURSIVE IsSubsequence(_, _)
IsSubsequence(a, b) ==
    IF a = << >> THEN TRUE
    ELSE IF b = << >> THEN FALSE
    ELSE IF Head(a) = Head(b) THEN IsSubsequence(Tail(a), Tail(b))
    ELSE IsSubsequence(a, Tail(b))

HasSpaceOrPeriod(name) == \E k \in DOMAIN name : name[k] \in { " ", "." }

ExpectedCount(body) ==
    LET field == { p \in body : p[1] = "total_count" }
    IN  IF field = {} THEN 0 ELSE (CHOOSE p \in field : TRUE)[2]

SkCsv == files["sklearn_datasets_counts.csv"]

RCsv == files["r_datasets_counts.csv"]

InRLoop == pc \in { "r_for", "r_while", "r_after" }

\* query_sklearn_datasets has returned and its frame is still in the state
SkReturned == SkCsv # NoFile /\ pc \in { "r_open", "done" } /\ entry \in { "script", "A" } /\ RCsv = NoFile

\* query_r_datasets has returned
RReturned == entry # "A" /\ RCsv # NoFile

LastRowIs(name, body) ==
    /\ Len(dataset_names) = mark + 1
    /\ Len(counts) = Len(dataset_names)
    /\ dataset_names[Len(dataset_names)] = name
    /\ counts[Len(counts)] = ExpectedCount(body)

(***************************************************************************)
(* C1: in query_r_datasets, N rate-limit answers (N < 10) followed by a    *)
(* success make exactly N+1 requests and N sleeps, each sleep after a 403  *)
(* and before the next request, and record exactly one row for the entry;  *)
(* fewer than 10 rate-limit answers never end the retry loop.              *)
(***************************************************************************)
C1_RetriesThenSuccess ==
    pc = "r_after" =>
        LET a == Answers(log)
            n == Count(log, "403")
        IN  /\ (\A k \in DOMAIN a : a[k] = "403") => n = 10
            /\ (n < 10 /\ a = Times(<< "403" >>, n) \o << "200" >>) =>
                 /\ log = Times(<< "GET", "403", "print:rate limit", "sleep" >>, n)
                            \o << "GET", "200", "print:count" >>
                 /\ Count(log, "GET") = n + 1
                 /\ Count(log, "sleep") = n
                 /\ success
                 /\ Len(dataset_names) = mark + 1
                 /\ dataset_names[Len(dataset_names)] = datasets_list[i]

C1_Witness ==
    /\ pc = "r_after"
    /\ Answers(log) = Times(<< "403" >>, 9) \o << "200" >>
    /\ Count(log, "sleep") = 9
    /\ datasets_list[i] = Iris
    /\ counts[Len(counts)] = 7

(***************************************************************************)
(* C2: in query_r_datasets, 10 consecutive rate-limit answers make exactly *)
(* 10 requests, no success and no row, and the routine goes on to the next *)
(* list entry.                                                             *)
(***************************************************************************)
C2_Exhausted_State ==
    (InRLoop /\ Count(log, "403") >= 10) =>
        /\ Answers(log) = Times(<< "403" >>, 10)
        /\ Count(log, "GET") = 10
        /\ Len(dataset_names) = mark
        /\ Len(counts) = mark
        /\ pc = "r_after" => ~success

C2_Exhausted_Step ==
    (pc = "r_after" /\ Count(log, "403") = 10) =>
        /\ pc' = "r_for"
        /\ i' = i + 1
        /\ dataset_names' = dataset_names
        /\ counts' = counts
        /\ log' = Append(log, "print:gave up")

\* C2: exhaustion after 10 rate-limit answers, in every state and at every step
C2_Exhausted == [] C2_Exhausted_State /\ [][C2_Exhausted_Step]_vars

C2_Witness ==
    /\ pc = "r_for"
    /\ Count(log, "403") = 10
    /\ Count(log, "GET") = 10
    /\ i = 2
    /\ Len(datasets_list) = 2
    /\ ~HasSpaceOrPeriod(datasets_list[2])
    /\ dataset_names = << >>

(***************************************************************************)
(* C3: in both routines an HTTP error status other than 403 is answered by *)
(* no retry and no row; the routine goes on with the remaining entries and *)
(* writes its table.                                                       *)
(***************************************************************************)
C3_HttpError_State ==
    /\ (pc = "sk_for" /\ Len(log) >= 2 /\ log[1] = "GET" /\ log[2] \in { "404", "500" }) =>
          /\ log = << "GET", log[2], "print:failed" >>
          /\ Len(dataset_names) = mark
          /\ Len(counts) = mark
    /\ (InRLoop /\ (Count(log, "404") + Count(log, "500") > 0)) =>
          LET a == Answers(log)
          IN  /\ a[Len(a)] \in { "404", "500" }
              /\ \A k \in 1..(Len(a) - 1) : a[k] = "403"
              /\ Count(log, "GET") = Len(a)
              /\ a[1] \in { "404", "500" } => Count(log, "GET") = 1
              /\ pc \in { "r_after", "r_for" }
              /\ pc = "r_after" => ~success
              /\ Len(dataset_names) = mark
              /\ Len(counts) = mark
    /\ pc = "crashed" =>
          \/ LastAnswer(log) = "transport error" /\ SkCsv = NoFile
          \/ SkCsv # NoFile /\ RCsv # NoFile
    /\ (pc = "done" /\ entry = "A") => Len(SkCsv) = 1
    /\ (pc = "done" /\ entry = "B") => Len(RCsv) = 1

C3_HttpError_Step ==
    (pc = "r_after" /\ LastAnswer(log) \in { "404", "500" }) =>
        /\ pc' = "r_for"
        /\ i' = i + 1
        /\ dataset_names' = dataset_names
        /\ counts' = counts

\* C3: an HTTP error other than 403 is skipped, in every state and at every step
C3_HttpError == [] C3_HttpError_State /\ [][C3_HttpError_Step]_vars

C3_Witness ==
    /\ entry = "script"
    /\ pc = "plot"
    /\ LastAnswer(log) = "404"
    /\ Count(log, "GET") = 1
    /\ Len(SkCsv) = 1
    /\ Len(RCsv) = 1
    /\ datasets_list = << Iris, Cars >>
    /\ failed_queries = 2

(***************************************************************************)
(* C4: in query_r_datasets a name with a space or a period is filtered     *)
(* before any query: no request is issued for it and it is in no table.    *)
(***************************************************************************)
C4_Filtered ==
    /\ pc \in { "r_while", "r_after" } => ~HasSpaceOrPeriod(datasets_list[i])
    /\ (pc = "r_for" /\ i > 1 /\ HasSpaceOrPeriod(datasets_list[i - 1])) =>
          Count(log, "GET") = 0 /\ Len(dataset_names) = mark
    /\ (entry = "B" /\ \A k \in DOMAIN datasets_list : HasSpaceOrPeriod(datasets_list[k])) =>
          ~network_used
    /\ InRLoop => \A k \in DOMAIN dataset_names : ~HasSpaceOrPeriod(dataset_names[k])
    /\ \A k \in DOMAIN r_df.dataset : ~HasSpaceOrPeriod(r_df.dataset[k])
    /\ \A w \in DOMAIN RCsv : \A k \in DOMAIN RCsv[w].rows :
          ~HasSpaceOrPeriod(RCsv[w].rows[k][1])

C4_Witness ==
    /\ entry = "B"
    /\ pc = "done"
    /\ datasets_list = << StateX77, Iris >>
    /\ r_df.dataset = << Iris >>
    /\ network_used

(***************************************************************************)
(* C5: in both routines the row recorded after a successful response       *)
(* carries that response's total_count, or 0 when the field is absent; in  *)
(* query_r_datasets it is the final, successful response's.                *)
(***************************************************************************)
C5_CountOfSuccess ==
    /\ (pc = "sk_for" /\ Len(log) >= 2 /\ log[1] = "GET" /\ log[2] = "200") =>
          /\ response.status = 200
          /\ LastRowIs(sklearn_datasets[i - 1], response.body)
    /\ (pc \in { "r_while", "r_after" } /\ LastAnswer(log) = "200") =>
          /\ response.status = 200
          /\ LastRowIs(datasets_list[i], response.body)
    /\ SkCsv # NoFile => sklearn_df.total_count \in Seq({ 0, 7, 120 })
    /\ RCsv # NoFile => r_df.total_count \in Seq({ 0, 7, 120 })

C5_Witness ==
    /\ pc = "r_after"
    /\ Answers(log) = << "403", "200" >>
    /\ response.body = { << "message", 1 >> }
    /\ counts = << 120, 0 >>
    /\ dataset_names = << Cars, Iris >>

(***************************************************************************)
(* C6: a routine's table has at most as many rows as its input list, and   *)
(* as many only when every entry's query ended in a success.               *)
(***************************************************************************)
C6_RowCount ==
    /\ pc = "sk_for" => Len(dataset_names) <= i - 1
    /\ InRLoop => Len(dataset_names) <= i
    /\ SkReturned =>
          LET n == Len(sklearn_df.dataset)
          IN  /\ n <= Len(sklearn_datasets)
              /\ Len(SkCsv[1].rows) = n
              /\ n = Len(sklearn_datasets) => failed_queries = 0
    /\ RReturned =>
          LET n == Len(r_df.dataset)
          IN  /\ n <= Len(datasets_list)
              /\ Len(RCsv[1].rows) = n
              /\ n = Len(datasets_list) =>
                    /\ failed_queries = 0
                    /\ \A k \in DOMAIN datasets_list : ~HasSpaceOrPeriod(datasets_list[k])

C6_Witness ==
    /\ entry = "B"
    /\ pc = "done"
    /\ Len(datasets_list) = 2
    /\ Len(RCsv[1].rows) = 2
    /\ failed_queries = 0

(***************************************************************************)
(* C7: the result lists only grow, by one row at a time at their end; the  *)
(* names are a subsequence of the processed part of the input list, in its *)
(* order; a written table is that of the lists and is never rewritten.     *)
(***************************************************************************)
C7_Rows_State ==
    /\ Len(counts) = Len(dataset_names)
    /\ Len(dataset_names) <= mark + 1
    /\ pc = "sk_for" =>
          IsSubsequence(dataset_names, SubSeq(sklearn_datasets, 1, i - 1))
    /\ pc = "r_for" =>
          IsSubsequence(dataset_names, SubSeq(datasets_list, 1, i - 1))
    /\ pc \in { "r_while", "r_after" } =>
          IsSubsequence(dataset_names, SubSeq(datasets_list, 1, i))
    /\ SkReturned =>
          sklearn_df = DataFrame(dataset_names, counts) /\ SkCsv = << ToCsv(sklearn_df) >>
    /\ RReturned =>
          r_df = DataFrame(dataset_names, counts) /\ RCsv = << ToCsv(r_df) >>

C7_Rows_Step ==
    /\ pc # "r_open" =>
          \/ dataset_names' = dataset_names /\ counts' = counts
          \/ /\ Len(dataset_names') = Len(dataset_names) + 1
             /\ SubSeq(dataset_names', 1, Len(dataset_names)) = dataset_names
             /\ Len(counts') = Len(counts) + 1
             /\ SubSeq(counts', 1, Len(counts)) = counts
    /\ \A f \in OutputFiles : files[f] # NoFile => files'[f] = files[f]

\* C7: the rows are append-only and in input order, in every state and at every step
C7_Rows == [] C7_Rows_State /\ [][C7_Rows_Step]_vars

C7_Witness ==
    /\ entry = "A"
    /\ pc = "done"
    /\ sklearn_df = DataFrame(<< "load_diabetes", "load_wine" >>, << 7, 0 >>)
    /\ SkCsv = << ToCsv(sklearn_df) >>

(***************************************************************************)
(* C8: in query_r_datasets a transport exception, at the first attempt or  *)
(* after rate-limit answers, ends the retry loop at once: no request, no   *)
(* sleep and no row follow, and the routine goes on to the next entry.     *)
(***************************************************************************)
C8_Transport_State ==
    (InRLoop /\ Count(log, "transport error") > 0) =>
        LET a == Answers(log)
        IN  /\ a = Times(<< "403" >>, Len(a) - 1) \o << "transport error" >>
            /\ Count(log, "GET") = Len(a)
            /\ Count(log, "sleep") = Len(a) - 1
            /\ \E k \in DOMAIN log :
                  /\ log[k] = "transport error"
                  /\ \A j \in (k + 1)..Len(log) : log[j] \notin { "GET", "sleep" }
            /\ pc \in { "r_after", "r_for" }
            /\ pc = "r_after" => ~success
            /\ Len(dataset_names) = mark
            /\ Len(counts) = mark

C8_Transport_Step ==
    (pc = "r_after" /\ LastAnswer(log) = "transport error") =>
        /\ pc' = "r_for"
        /\ i' = i + 1
        /\ dataset_names' = dataset_names
        /\ counts' = counts
        /\ network_used' = network_used

\* C8: a transport exception ends the retry loop, in every state and at every step
C8_Transport == [] C8_Transport_State /\ [][C8_Transport_Step]_vars

C8_Witness ==
    /\ pc = "r_for"
    /\ i = 2
    /\ Len(datasets_list) = 2
    /\ ~HasSpaceOrPeriod(datasets_list[2])
    /\ Answers(log) = << "403", "403", "transport error" >>
    /\ dataset_names = << >>

(***************************************************************************)
(* C9: run as a script without a token (unset or empty), the program       *)
(* reports it and stops: no request, no routine, no table, no chart.       *)
(***************************************************************************)
C9_NoToken ==
    (entry = "script" /\ token \in { "None", "" }) =>
        /\ pc \in { "main", "no_token" }
        /\ ~network_used
        /\ \A f \in OutputFiles : files[f] = NoFile
        /\ sklearn_df = EmptyFrame
        /\ r_df = EmptyFrame
        /\ dataset_names = << >>
        /\ pc = "no_token" => log = << "print:token not set" >>

C9_Witness ==
    /\ entry = "script"
    /\ token = "None"
    /\ pc = "no_token"
    /\ log = << "print:token not set" >>

(***************************************************************************)
(* C10: whatever the API answers, query_r_datasets issues at most 10       *)
(* requests for an entry, its retry loop ends, and the routine reaches the *)
(* end of its list and writes its table exactly once.                      *)
(***************************************************************************)
C10_Bounded_State ==
    /\ InRLoop => Count(log, "GET") <= 10 /\ attempt <= 10
    /\ Len(RCsv) <= 1
    /\ RReturned => i = Len(datasets_list) + 1 /\ pc \in { "plot", "done", "crashed" }

\* C10: at most 10 requests per entry, and the routine ends with its table written once
C10_Bounded ==
    /\ [] C10_Bounded_State
    /\ (pc = "r_while") ~> (pc = "r_after")
    /\ (pc = "r_open") ~> (pc \in { "plot", "done" } /\ Len(RCsv) = 1)

C10_Witness ==
    /\ entry = "B"
    /\ pc = "done"
    /\ Len(datasets_list) = 2
    /\ Count(log, "GET") = 10
    /\ Len(RCsv) = 1
    /\ failed_queries = 2

=============================================================================
